---- MODULE Spec2Model ----
(***************************************************************************)
(* A model of ritobin's binary reader (src/ritobin/binary_read.cpp):       *)
(* BinaryReader (the byte cursor), BinBinaryReader (the recursive-descent  *)
(* decoder with its bin_assert / fail_msg error chain) and                 *)
(* Bin::read_binary (the decode call).                                     *)
(*                                                                         *)
(* Pointers into the buffer are modelled as offsets from beg_ (beg_ = 0,   *)
(* cap_ = Len(data)); size_t is 64 bits wide, so cur_ + n never wraps for  *)
(* the 32-bit counts the format carries.  The call stack of the decoder is *)
(* explicit: one frame per active function, one step per bin_assert.       *)
(***************************************************************************)
EXTENDS Integers, Sequences, FiniteSets, TLC

VARIABLES
    data,       \* the input buffer [beg_, cap_): a sequence of bytes
    cur,        \* reader.cur_ - reader.beg_
    sections,   \* bin.sections: a function from section names to Values
    error,      \* BinBinaryReader::error: <<msg, pos>> records, innermost first
    stack,      \* the decoder's call stack, innermost frame last
    ret,        \* what the callee that just returned to an empty or waiting frame said
    status,     \* "init" | "running" | "ok" (returned) | "thrown"
    message,    \* the text of the std::runtime_error, as a sequence of tokens
    doc,        \* which input document was chosen
    mut,        \* how it was altered before the call
    prior,      \* what bin.sections held before the call
    lastRead,   \* the last BinaryReader::read call made: <<>> or <<record>>
    sizeLog,    \* one record per boundary check position == position + size
    dispatch    \* the type tags read_value_of was entered with

vars == <<data, cur, sections, error, stack, ret, status, message,
          doc, mut, prior, lastRead, sizeLog, dispatch>>

(***************************************************************************)
(* Bounds of the model.                                                    *)
(***************************************************************************)
\* a byte b of the input is replaced by (b + d) % 256 for d in 1..MaxDelta
MaxDelta == 2

(***************************************************************************)
(* Type tags and their classification (bin.hpp).                           *)
(***************************************************************************)
Type == [NONE |-> 0, BOOL |-> 1, I8 |-> 2, U8 |-> 3, I16 |-> 4, U16 |-> 5,
         I32 |-> 6, U32 |-> 7, I64 |-> 8, U64 |-> 9, F32 |-> 10, VEC2 |-> 11,
         VEC3 |-> 12, VEC4 |-> 13, MTX44 |-> 14, RGBA |-> 15, STRING |-> 16,
         HASH |-> 17, FILE |-> 18,
         LIST |-> 128, LIST2 |-> 129, POINTER |-> 130, EMBED |-> 131,
         LINK |-> 132, OPTION |-> 133, MAP |-> 134, FLAG |-> 135]

MAX_PRIMITIVE == Type.FILE
MAX_COMPLEX == Type.FLAG

\* the tags that name a Value variant other than None
DefinedTags == (1..18) \cup (128..135)

is_primitive(t) == (t \div 128) % 2 = 0

is_container(t) ==
    t \in {Type.LIST, Type.LIST2, Type.OPTION, Type.MAP, Type.EMBED, Type.POINTER}

\* sizeof of the representation a scalar Value reads with reader.read(value.value);
\* 0 for String, whose length is on the wire
ValueSize(t) ==
    CASE t \in {Type.BOOL, Type.I8, Type.U8, Type.FLAG} -> 1
      [] t \in {Type.I16, Type.U16} -> 2
      [] t \in {Type.I32, Type.U32, Type.F32, Type.RGBA, Type.HASH, Type.LINK} -> 4
      [] t \in {Type.I64, Type.U64, Type.FILE, Type.VEC2} -> 8
      [] t = Type.VEC3 -> 12
      [] t = Type.VEC4 -> 16
      [] t = Type.MTX44 -> 64
      [] OTHER -> 0

(***************************************************************************)
(* Bytes and integers.                                                     *)
(***************************************************************************)
cap == Len(data)

\* memcpy(&value, cur_ + c, n); a byte outside [beg_, cap_) is not the buffer's
Bytes(c, n) == [k \in 1..n |-> IF c + k <= cap THEN data[c + k] ELSE 0]

\* the unsigned little-endian value of at most 4 bytes.  TLC's integers are 32
\* bits wide: a value of 2^28 or more is read as 2^28, which is larger than
\* every offset of the model and so compares as the exact value does.
MaxNum == 16 * 16777216
Num(b) ==
    IF Len(b) = 4 /\ b[4] >= 16 THEN MaxNum
    ELSE (IF Len(b) >= 1 THEN b[1] ELSE 0)
       + (IF Len(b) >= 2 THEN 256 * b[2] ELSE 0)
       + (IF Len(b) >= 3 THEN 65536 * b[3] ELSE 0)
       + (IF Len(b) >= 4 THEN 16777216 * b[4] ELSE 0)

sizeof_u8 == 1
sizeof_u16 == 2
sizeof_u32 == 4
sizeof_u64 == 8
sizeof_char == 1
MagicSize == 4

PROP == <<80, 82, 79, 80>>
PTCH == <<80, 84, 67, 72>>

(***************************************************************************)
(* BinaryReader.  Each read takes the cursor c and the destination's value *)
(* before the call and yields [ok, cur, value]: whether it returned true,  *)
(* the cursor after it and the destination after it.                       *)
(***************************************************************************)
position == cur

\* template<typename T> bool read(T& value), sizeof(T) = n
read_off_by_one(c, n, dest) ==
    IF c + n > cap + 1
        THEN [ok |-> FALSE, cur |-> c, value |-> dest]
        ELSE [ok |-> TRUE, cur |-> c + n, value |-> Bytes(c, n)]

read(c, n, dest) ==
    IF c + n > cap
        THEN [ok |-> FALSE, cur |-> c, value |-> dest]
        ELSE [ok |-> TRUE, cur |-> c + n, value |-> Bytes(c, n)]

\* bool read(std::array<T, SIZE>& value), sizeof(T) = n
read_array(c, n, SIZE, dest) ==
    IF c + n * SIZE > cap
        THEN [ok |-> FALSE, cur |-> c, value |-> dest]
        ELSE [ok |-> TRUE, cur |-> c + n * SIZE, value |-> Bytes(c, n * SIZE)]

\* bool read(std::vector<T>& value, size_t size), sizeof(T) = n
read_vector(c, n, size, dest) ==
    IF c + n * size > cap
        THEN [ok |-> FALSE, cur |-> c, value |-> dest]
        ELSE [ok |-> TRUE, cur |-> c + n * size,
              value |-> [k \in 1..size |-> Bytes(c + n * (k - 1), n)]]

\* bool read(std::string& value)
read_string(c, dest) ==
    LET r == read(c, sizeof_u16, <<0, 0>>)
        size == Num(r.value)
    IN  IF ~r.ok THEN [ok |-> FALSE, cur |-> c, value |-> dest]
        ELSE IF r.cur + size > cap THEN [ok |-> FALSE, cur |-> r.cur, value |-> dest]
        ELSE [ok |-> TRUE, cur |-> r.cur + size, value |-> Bytes(r.cur, size)]

\* bool read(Type& value)
read_Type_unchecked(c, dest) ==
    LET r == read(c, sizeof_u8, <<0>>)
    IN  IF ~r.ok THEN [ok |-> FALSE, cur |-> c, value |-> dest]
        ELSE [ok |-> TRUE, cur |-> r.cur, value |-> r.value[1]]

read_Type(c, dest) ==
    LET r == read(c, sizeof_u8, <<0>>)
        raw == r.value[1]
    IN  IF ~r.ok THEN [ok |-> FALSE, cur |-> c, value |-> dest]
        ELSE [ok |-> IF is_primitive(raw) THEN raw <= MAX_PRIMITIVE
                                           ELSE raw <= MAX_COMPLEX,
              cur |-> r.cur, value |-> raw]

\* bool read(FNV1a& value)
read_FNV1a(c, dest) ==
    LET r == read(c, sizeof_u32, dest)
    IN  IF ~r.ok THEN [ok |-> FALSE, cur |-> c, value |-> dest] ELSE r

\* bool read(XXH64& value)
read_XXH64(c, dest) ==
    LET r == read(c, sizeof_u64, dest)
    IN  IF ~r.ok THEN [ok |-> FALSE, cur |-> c, value |-> dest] ELSE r

(***************************************************************************)
(* Values (bin.hpp) and the sections of a Bin.                             *)
(***************************************************************************)
Zero4 == <<0, 0, 0, 0>>
NoneV == [type |-> Type.NONE]
StringV(s) == [type |-> Type.STRING, value |-> s]
U32V(b) == [type |-> Type.U32, value |-> b]
HashV(b) == [type |-> Type.HASH, value |-> b]
ListV(vt) == [type |-> Type.LIST, valueType |-> vt, items |-> <<>>]
MapV(kt, vt) == [type |-> Type.MAP, keyType |-> kt, valueType |-> vt, items |-> <<>>]
EmbedV(name) == [type |-> Type.EMBED, name |-> name, items |-> <<>>]

\* ValueHelper::from_type: the default-constructed Value of the tag's variant
from_type(t) ==
    CASE t \in {Type.EMBED, Type.POINTER} -> [type |-> t, name |-> Zero4, items |-> <<>>]
      [] t \in {Type.LIST, Type.LIST2, Type.OPTION}
            -> [type |-> t, valueType |-> Type.NONE, items |-> <<>>]
      [] t = Type.MAP -> MapV(Type.NONE, Type.NONE)
      [] t \in DefinedTags \ {Type.EMBED, Type.POINTER, Type.LIST, Type.LIST2,
                              Type.OPTION, Type.MAP} -> [type |-> t, value |-> <<>>]
      [] OTHER -> NoneV

\* which read_value_visit overload std::visit selects for a Value
VisitOf(v) ==
    CASE v.type = Type.EMBED -> "Embed"
      [] v.type = Type.POINTER -> "Pointer"
      [] v.type = Type.OPTION -> "Option"
      [] v.type = Type.LIST -> "List"
      [] v.type = Type.LIST2 -> "List2"
      [] v.type = Type.MAP -> "Map"
      [] v.type = Type.NONE -> "None"
      [] OTHER -> "T"

\* std::map::emplace: inserts unless the key is present
emplace(s, k, v) == IF k \in DOMAIN s THEN s ELSE s @@ (k :> v)

NoSections == [k \in {} |-> NoneV]

(***************************************************************************)
(* Frames of the call stack and the outcome of one step of a frame.        *)
(***************************************************************************)
NewFrame(fn, pc, value, aux) ==
    [fn |-> fn, pc |-> pc, start |-> 0, msg |-> "", position |-> 0, size |-> 0,
     count |-> 0, i |-> 0, type |-> Type.NONE, value |-> value, aux |-> aux]

Top == stack[Len(stack)]
Pop == SubSeq(stack, 1, Len(stack) - 1)
SetTop(f) == [stack EXCEPT ![Len(stack)] = f]

Base(f) ==
    [k |-> "go", f |-> f, callee |-> <<>>, msg |-> "", v |-> <<>>, cur |-> cur,
     sec |-> sections, rd |-> <<>>, sz |-> <<>>, dp |-> <<>>]

\* the statement passed: the frame goes on as f
Go(f) == Base(f)
\* bin_assert's failing branch: return fail_msg(msg, start)
Fail(f, msg) == [Base(f) EXCEPT !.k = "fail", !.msg = msg]
\* return true, handing v to the caller
Ret(f, v) == [Base(f) EXCEPT !.k = "ret", !.v = v]
\* bin_assert(callee(...)): the call is made, the frame waits as f
Call(f, msg, callee) == [Base(f) EXCEPT !.k = "call", !.msg = msg, !.callee = callee]

\* bin_assert(reader.read(x)): r is the read's result, okOut what follows it
AssertRead(f, msg, kind, r, dest, okOut) ==
    [(IF r.ok THEN okOut ELSE Fail(f, msg)) EXCEPT
        !.cur = r.cur,
        !.rd = <<[kind |-> kind, from |-> cur, to |-> r.cur, ok |-> r.ok,
                  before |-> dest, after |-> r.value]>>]

\* bool read_value_of(Value& value, Type type)
read_value_of(f, msg, type) ==
    LET value == from_type(type)
    IN  [Call(f, msg, NewFrame(VisitOf(value), "start", value, <<>>)) EXCEPT
            !.dp = <<type>>]

(***************************************************************************)
(* BinBinaryReader: one step of the frame f on top of the stack.           *)
(***************************************************************************)
\* bool fail_msg(char const* msg, char const* pos)
fail_msg(msg, pos) == Append(error, <<msg, pos>>)

\* bin_assert(reader.position() == position + size); return true;  -- the check at
\* the end of every size-prefixed field, v being the value the field decoded to
boundary_atleast(f, sizeName, v) ==
    [(IF position >= f.position + f.size
        THEN Ret(f, v)
        ELSE Fail(f, "reader.position() == position + " \o sizeName))
     EXCEPT !.sz = <<[fn |-> f.fn, position |-> f.position, size |-> f.size,
                      after |-> position]>>]

boundary_unchecked(f, sizeName, v) ==
    [Ret(f, v) EXCEPT !.sz = <<[fn |-> f.fn, position |-> f.position,
                                size |-> f.size, after |-> position]>>]

boundary_check(f, sizeName, v) ==
    [(IF position = f.position + f.size
        THEN Ret(f, v)
        ELSE Fail(f, "reader.position() == position + " \o sizeName))
     EXCEPT !.sz = <<[fn |-> f.fn, position |-> f.position, size |-> f.size,
                      after |-> position]>>]

\* bin_assert(!is_container(value.valueType)); the frame goes on at next
nest_unchecked(f, next) == Go([f EXCEPT !.pc = next])

nest_check(f, next) ==
    IF ~is_container(f.value.valueType)
        THEN Go([f EXCEPT !.pc = next])
        ELSE Fail(f, "!is_container(value.valueType)")

\* bool process()
process_no_clear(f) ==
    IF f.pc = "start"
        THEN Call([f EXCEPT !.pc = "return"], "read_sections()",
                  NewFrame("read_sections", "magic", <<>>,
                           [magic |-> Zero4, version |-> Zero4]))
        ELSE Ret(f, <<>>)

process(f) ==
    IF f.pc = "start"
        THEN [Call([f EXCEPT !.pc = "return"], "read_sections()",
                   NewFrame("read_sections", "magic", <<>>,
                            [magic |-> Zero4, version |-> Zero4]))
              EXCEPT !.sec = NoSections]
        ELSE Ret(f, <<>>)

\* bool read_sections()
read_sections(f) ==
    CASE f.pc = "magic" ->
            LET r == read_array(cur, sizeof_char, MagicSize, f.aux.magic)
                g == [f EXCEPT !.aux.magic = r.value]
            IN  AssertRead(f, "reader.read(magic)", "array", r, f.aux.magic,
                    IF r.value = PTCH
                        THEN Go([g EXCEPT !.pc = "unk"])
                        ELSE [Go([g EXCEPT !.pc = "check"]) EXCEPT
                                !.sec = emplace(sections, "type", StringV("PROP"))])
      [] f.pc = "unk" ->
            LET r == read(cur, sizeof_u64, <<0, 0, 0, 0, 0, 0, 0, 0>>)
            IN  AssertRead(f, "reader.read(unk)", "scalar", r,
                    <<0, 0, 0, 0, 0, 0, 0, 0>>, Go([f EXCEPT !.pc = "magic2"]))
      [] f.pc = "magic2" ->
            LET r == read_array(cur, sizeof_char, MagicSize, f.aux.magic)
            IN  AssertRead(f, "reader.read(magic)", "array", r, f.aux.magic,
                    [Go([f EXCEPT !.pc = "check", !.aux.magic = r.value]) EXCEPT
                        !.sec = emplace(sections, "type", StringV("PTCH"))])
      [] f.pc = "check" ->
            IF f.aux.magic = PROP
                THEN Go([f EXCEPT !.pc = "version"])
                ELSE Fail(f, "magic == std::array{ 'P', 'R', 'O', 'P' }")
      [] f.pc = "version" ->
            LET r == read(cur, sizeof_u32, f.aux.version)
            IN  AssertRead(f, "reader.read(version)", "scalar", r, f.aux.version,
                    [Go([f EXCEPT !.pc = "linked", !.aux.version = r.value]) EXCEPT
                        !.sec = emplace(sections, "version", U32V(r.value))])
      [] f.pc = "linked" ->
            Call([f EXCEPT !.pc = "entries"], "read_linked(version >= 2)",
                 NewFrame("read_linked", "start", ListV(Type.STRING),
                          Num(f.aux.version) >= 2))
      [] f.pc = "entries" ->
            Call([f EXCEPT !.pc = "end"], "read_entries()",
                 NewFrame("read_entries", "count", MapV(Type.HASH, Type.EMBED), <<>>))
      [] OTHER ->
            IF cur = cap THEN Ret(f, <<>>) ELSE Fail(f, "reader.cur_ == reader.cap_")

\* bool read_linked(bool hasLinks); f.aux is hasLinks, f.value is linkedList
read_linked(f) ==
    CASE f.pc = "start" ->
            IF ~f.aux THEN Go([f EXCEPT !.pc = "emplace"])
            ELSE LET r == read(cur, sizeof_u32, Zero4)
                     n == Num(r.value)
                 IN  AssertRead(f, "reader.read(linkedFilesCount)", "scalar", r, Zero4,
                        Go([f EXCEPT !.count = n, !.i = 0,
                                     !.pc = IF n = 0 THEN "emplace" ELSE "string"]))
      [] f.pc = "string" ->
            LET r == read_string(cur, <<>>)
            IN  AssertRead(f, "reader.read(linked.value)", "string", r, <<>>,
                    Go([f EXCEPT !.value.items = Append(@, StringV(r.value)),
                                 !.i = @ + 1,
                                 !.pc = IF f.i + 1 = f.count THEN "emplace" ELSE "string"]))
      [] OTHER ->
            [Ret(f, <<>>) EXCEPT !.sec = emplace(sections, "linked", f.value)]

\* bool read_entries(); f.aux is entryNameHashes, f.value is entriesMap
read_entries(f) ==
    CASE f.pc = "count" ->
            LET r == read(cur, sizeof_u32, Zero4)
            IN  AssertRead(f, "reader.read(entryCount)", "scalar", r, Zero4,
                    Go([f EXCEPT !.count = Num(r.value), !.pc = "hashes"]))
      [] f.pc = "hashes" ->
            LET r == read_vector(cur, sizeof_u32, f.count, <<>>)
            IN  AssertRead(f, "reader.read(entryNameHashes, entryCount)", "vector", r, <<>>,
                    Go([f EXCEPT !.aux = r.value, !.i = 0,
                                 !.pc = IF r.value = <<>> THEN "emplace" ELSE "entry"]))
      [] f.pc = "entry" ->
            Call(f, "read_entry(entryKeyHash, entry)",
                 NewFrame("read_entry", "length", EmbedV(f.aux[f.i + 1]), Zero4))
      [] OTHER ->
            [Ret(f, <<>>) EXCEPT !.sec = emplace(sections, "entries", f.value)]

\* for (i = 0; i != count; i++) { emplace_back(); name; type; read_value_of } and
\* the boundary check after it: the field loop of an entry, an Embed and a Pointer
read_fields(f, sizeName, v) ==
    CASE f.pc = "count" ->
            LET r == read(cur, sizeof_u16, <<0, 0>>)
                n == Num(r.value)
            IN  AssertRead(f, "reader.read(count)", "scalar", r, <<0, 0>>,
                    Go([f EXCEPT !.count = n, !.i = 0,
                                 !.pc = IF n = 0 THEN "check" ELSE "name"]))
      [] f.pc = "name" ->
            LET r == read_FNV1a(cur, Zero4)
            IN  AssertRead(f, "reader.read(name)", "hash32", r, Zero4,
                    Go([f EXCEPT !.pc = "type", !.type = Type.NONE,
                          !.value.items = Append(@, [name |-> r.value, item |-> NoneV])]))
      [] f.pc = "type" ->
            LET r == read_Type(cur, f.type)
            IN  AssertRead(f, "reader.read(type)", "type", r, f.type,
                    Go([f EXCEPT !.pc = "value", !.type = r.value]))
      [] f.pc = "value" ->
            read_value_of(f, "read_value_of(item, type)", f.type)
      [] OTHER ->
            boundary_check(f, sizeName, v)

\* bool read_entry(Hash& entryKeyHash, Embed& entry); f.aux is entryKeyHash.value
read_entry(f) ==
    CASE f.pc = "length" ->
            LET r == read(cur, sizeof_u32, Zero4)
            IN  AssertRead(f, "reader.read(entryLength)", "scalar", r, Zero4,
                    Go([f EXCEPT !.size = Num(r.value), !.position = r.cur,
                                 !.pc = "hash"]))
      [] f.pc = "hash" ->
            LET r == read_FNV1a(cur, f.aux)
            IN  AssertRead(f, "reader.read(entryKeyHash.value)", "hash32", r, f.aux,
                    Go([f EXCEPT !.aux = r.value, !.pc = "count"]))
      [] OTHER ->
            read_fields(f, "entryLength", [key |-> HashV(f.aux), item |-> f.value])

\* bool read_value_visit(None&)
read_value_visit_None(f) == Fail(f, "false")

\* bool read_value_visit(Embed& value)
read_value_visit_Embed(f) ==
    CASE f.pc = "start" ->
            LET r == read_FNV1a(cur, f.value.name)
            IN  AssertRead(f, "reader.read(value.name)", "hash32", r, f.value.name,
                    Go([f EXCEPT !.value.name = r.value, !.pc = "size"]))
      [] f.pc = "size" ->
            LET r == read(cur, sizeof_u32, Zero4)
            IN  AssertRead(f, "reader.read(size)", "scalar", r, Zero4,
                    Go([f EXCEPT !.size = Num(r.value), !.position = r.cur,
                                 !.pc = "count"]))
      [] OTHER ->
            read_fields(f, "size", f.value)

\* bool read_value_visit(Pointer& value)
read_value_visit_Pointer(f) ==
    CASE f.pc = "start" ->
            LET r == read_FNV1a(cur, f.value.name)
                g == [f EXCEPT !.value.name = r.value, !.pc = "size"]
            IN  AssertRead(f, "reader.read(value.name)", "hash32", r, f.value.name,
                    IF Num(r.value) = 0 THEN Ret(g, g.value) ELSE Go(g))
      [] f.pc = "size" ->
            LET r == read(cur, sizeof_u32, Zero4)
            IN  AssertRead(f, "reader.read(size)", "scalar", r, Zero4,
                    Go([f EXCEPT !.size = Num(r.value), !.position = r.cur,
                                 !.pc = "count"]))
      [] OTHER ->
            read_fields(f, "size", f.value)

\* bool read_value_visit(Option& value)
read_value_visit_Option(f) ==
    CASE f.pc = "start" ->
            LET r == read_Type(cur, f.value.valueType)
            IN  AssertRead(f, "reader.read(value.valueType)", "type", r,
                    f.value.valueType,
                    Go([f EXCEPT !.value.valueType = r.value, !.pc = "nest"]))
      [] f.pc = "nest" ->
            nest_check(f, "count")
      [] f.pc = "count" ->
            LET r == read(cur, sizeof_u8, <<0>>)
            IN  AssertRead(f, "reader.read(count)", "scalar", r, <<0>>,
                    Go([f EXCEPT !.count = Num(r.value),
                                 !.pc = IF Num(r.value) # 0 THEN "item" ELSE "return"]))
      [] f.pc = "item" ->
            read_value_of([f EXCEPT !.value.items = Append(@, NoneV), !.pc = "return"],
                          "read_value_of(item, value.valueType)", f.value.valueType)
      [] OTHER ->
            Ret(f, f.value)

\* bool read_value_visit(List& value) and bool read_value_visit(List2& value):
\* the two bodies are the same text
read_list(f) ==
    CASE f.pc = "start" ->
            LET r == read_Type(cur, f.value.valueType)
            IN  AssertRead(f, "reader.read(value.valueType)", "type", r,
                    f.value.valueType,
                    Go([f EXCEPT !.value.valueType = r.value, !.pc = "nest"]))
      [] f.pc = "nest" ->
            nest_check(f, "size")
      [] f.pc = "size" ->
            LET r == read(cur, sizeof_u32, Zero4)
            IN  AssertRead(f, "reader.read(size)", "scalar", r, Zero4,
                    Go([f EXCEPT !.size = Num(r.value), !.position = r.cur,
                                 !.pc = "count"]))
      [] f.pc = "count" ->
            LET r == read(cur, sizeof_u32, Zero4)
                n == Num(r.value)
            IN  AssertRead(f, "reader.read(count)", "scalar", r, Zero4,
                    Go([f EXCEPT !.count = n, !.i = 0,
                                 !.pc = IF n = 0 THEN "check" ELSE "item"]))
      [] f.pc = "item" ->
            read_value_of([f EXCEPT !.value.items = Append(@, NoneV)],
                          "read_value_of(item, value.valueType)", f.value.valueType)
      [] OTHER ->
            boundary_check(f, "size", f.value)

read_value_visit_List(f) == read_list(f)

read_value_visit_List2(f) == read_list(f)

\* bool read_value_visit(Map& value)
read_value_visit_Map(f) ==
    CASE f.pc = "start" ->
            LET r == read_Type(cur, f.value.keyType)
            IN  AssertRead(f, "reader.read(value.keyType)", "type", r, f.value.keyType,
                    Go([f EXCEPT !.value.keyType = r.value, !.pc = "prim"]))
      [] f.pc = "prim" ->
            IF is_primitive(f.value.keyType)
                THEN Go([f EXCEPT !.pc = "vtype"])
                ELSE Fail(f, "is_primitive(value.keyType)")
      [] f.pc = "vtype" ->
            LET r == read_Type(cur, f.value.valueType)
            IN  AssertRead(f, "reader.read(value.valueType)", "type", r,
                    f.value.valueType,
                    Go([f EXCEPT !.value.valueType = r.value, !.pc = "nest"]))
      [] f.pc = "nest" ->
            nest_check(f, "size")
      [] f.pc = "size" ->
            LET r == read(cur, sizeof_u32, Zero4)
            IN  AssertRead(f, "reader.read(size)", "scalar", r, Zero4,
                    Go([f EXCEPT !.size = Num(r.value), !.position = r.cur,
                                 !.pc = "count"]))
      [] f.pc = "count" ->
            LET r == read(cur, sizeof_u32, Zero4)
                n == Num(r.value)
            IN  AssertRead(f, "reader.read(count)", "scalar", r, Zero4,
                    Go([f EXCEPT !.count = n, !.i = 0,
                                 !.pc = IF n = 0 THEN "check" ELSE "key"]))
      [] f.pc = "key" ->
            read_value_of([f EXCEPT !.value.items =
                                        Append(@, [key |-> NoneV, item |-> NoneV])],
                          "read_value_of(key, value.keyType)", f.value.keyType)
      [] f.pc = "value" ->
            read_value_of(f, "read_value_of(item, value.valueType)", f.value.valueType)
      [] OTHER ->
            boundary_check(f, "size", f.value)

\* template<typename T> bool read_value_visit(T& value): reader.read(value.value)
\* resolves to the overload of T's representation
read_value_visit_T(f) ==
    LET t == f.value.type
        r == CASE t = Type.STRING -> read_string(cur, f.value.value)
               [] t \in {Type.HASH, Type.LINK} -> read_FNV1a(cur, f.value.value)
               [] t = Type.FILE -> read_XXH64(cur, f.value.value)
               [] t \in {Type.VEC2, Type.VEC3, Type.VEC4, Type.MTX44, Type.RGBA}
                    -> read_array(cur, 1, ValueSize(t), f.value.value)
               [] OTHER -> read(cur, ValueSize(t), f.value.value)
        kind == CASE t = Type.STRING -> "string"
                  [] t \in {Type.HASH, Type.LINK} -> "hash32"
                  [] t = Type.FILE -> "hash64"
                  [] t \in {Type.VEC2, Type.VEC3, Type.VEC4, Type.MTX44, Type.RGBA}
                        -> "array"
                  [] OTHER -> "scalar"
    IN  AssertRead(f, "reader.read(value.value)", kind, r, f.value.value,
            Ret(f, [f.value EXCEPT !.value = r.value]))

\* the caller c goes on after the callee it waited for returned true with v:
\* v is the Value the callee filled in through its reference parameter
Deliver(c, v) ==
    LET n == Len(c.value.items)
        more == c.i + 1 # c.count
    IN  CASE c.fn = "read_entries" ->
                [c EXCEPT !.value.items = Append(@, v), !.i = @ + 1,
                          !.pc = IF c.i + 1 = Len(c.aux) THEN "emplace" ELSE "entry"]
          [] c.fn \in {"read_entry", "Embed", "Pointer"} ->
                [c EXCEPT !.value.items[n].item = v, !.i = @ + 1,
                          !.pc = IF more THEN "name" ELSE "check"]
          [] c.fn = "Option" ->
                [c EXCEPT !.value.items[n] = v]
          [] c.fn \in {"List", "List2"} ->
                [c EXCEPT !.value.items[n] = v, !.i = @ + 1,
                          !.pc = IF more THEN "item" ELSE "check"]
          [] c.fn = "Map" /\ c.pc = "key" ->
                [c EXCEPT !.value.items[n].key = v, !.pc = "value"]
          [] c.fn = "Map" ->
                [c EXCEPT !.value.items[n].item = v, !.i = @ + 1,
                          !.pc = IF more THEN "key" ELSE "check"]
          [] OTHER -> c

\* the effect of one step with outcome o on the state
Apply(o) ==
    /\ cur' = o.cur
    /\ sections' = o.sec
    /\ lastRead' = IF o.rd = <<>> THEN lastRead ELSE o.rd
    /\ sizeLog' = sizeLog \o o.sz
    /\ dispatch' = dispatch \o o.dp
    /\ error' = IF o.k = "fail" THEN fail_msg(o.msg, cur) ELSE error
    /\ ret' = IF o.k = "fail" THEN "false"
              ELSE IF o.k = "ret" /\ Len(stack) = 1 THEN "true" ELSE ret
    /\ stack' = IF o.k = "go" THEN SetTop(o.f)
                ELSE IF o.k = "call"
                    THEN Append(SetTop([o.f EXCEPT !.start = cur, !.msg = o.msg]),
                                o.callee)
                ELSE IF o.k = "fail" \/ Len(stack) = 1 THEN Pop
                ELSE [Pop EXCEPT ![Len(stack) - 1] = Deliver(stack[Len(stack) - 1], o.v)]
    /\ UNCHANGED <<data, status, message, doc, mut, prior>>

Running(fn) == status = "running" /\ ret = "none" /\ stack # <<>> /\ Top.fn = fn

(***************************************************************************)
(* Bin::read_binary: the call, the steps of the decoder, the return or the *)
(* throw.                                                                  *)
(***************************************************************************)
beg == 0

DigitChar == <<"0", "1", "2", "3", "4", "5", "6", "7", "8", "9">>

RECURSIVE Digits(_)
Digits(n) ==
    IF n < 10 THEN <<DigitChar[n + 1]>>
    ELSE Digits(n \div 10) \o <<DigitChar[(n % 10) + 1]>>

\* std::to_string of a signed integer
to_string(n) == IF n < 0 THEN <<"-">> \o Digits(0 - n) ELSE Digits(n)

\* the loop of read_binary over reader.error, from crbegin() to crend()
RECURSIVE ErrorText(_)
ErrorText(e) ==
    IF e = <<>> THEN <<>>
    ELSE <<e[Len(e)][1], " @ ">> \o to_string(beg - e[Len(e)][2]) \o <<"\n">>
         \o ErrorText(SubSeq(e, 1, Len(e) - 1))

\* BinBinaryReader reader = { *this, { data, data, data + size }, {} };
\* reader.process() is entered
read_binary ==
    /\ status = "init"
    /\ status' = "running"
    /\ cur' = beg
    /\ error' = <<>>
    /\ ret' = "none"
    /\ stack' = <<NewFrame("process", "start", <<>>, <<>>)>>
    /\ UNCHANGED <<data, sections, message, doc, mut, prior, lastRead, sizeLog,
                   dispatch>>

\* reader.process() has returned: read_binary returns, or throws the error text
read_binary_result ==
    /\ status = "running"
    /\ stack = <<>>
    /\ IF ret = "true"
          THEN status' = "ok" /\ message' = message
          ELSE status' = "thrown" /\ message' = ErrorText(error)
    /\ UNCHANGED <<data, cur, sections, error, stack, ret, doc, mut, prior,
                   lastRead, sizeLog, dispatch>>

\* a callee returned false: the caller's bin_assert returns fail_msg(text, start)
bin_assert_goes_on ==
    /\ status = "running"
    /\ ret = "false"
    /\ stack # <<>>
    /\ error' = fail_msg(Top.msg, Top.start)
    /\ ret' = "none"
    /\ UNCHANGED <<data, cur, sections, stack, status, message, doc, mut, prior,
                   lastRead, sizeLog, dispatch>>

bin_assert ==
    /\ status = "running"
    /\ ret = "false"
    /\ stack # <<>>
    /\ error' = fail_msg(Top.msg, Top.start)
    /\ stack' = Pop
    /\ UNCHANGED <<data, cur, sections, ret, status, message, doc, mut, prior,
                   lastRead, sizeLog, dispatch>>

Step_process == Running("process") /\ Apply(process(Top))
Step_read_sections == Running("read_sections") /\ Apply(read_sections(Top))
Step_read_linked == Running("read_linked") /\ Apply(read_linked(Top))
Step_read_entries == Running("read_entries") /\ Apply(read_entries(Top))
Step_read_entry == Running("read_entry") /\ Apply(read_entry(Top))
Step_None == Running("None") /\ Apply(read_value_visit_None(Top))
Step_Embed == Running("Embed") /\ Apply(read_value_visit_Embed(Top))
Step_Pointer == Running("Pointer") /\ Apply(read_value_visit_Pointer(Top))
Step_Option == Running("Option") /\ Apply(read_value_visit_Option(Top))
Step_List == Running("List") /\ Apply(read_value_visit_List(Top))
Step_List2 == Running("List2") /\ Apply(read_value_visit_List2(Top))
Step_Map == Running("Map") /\ Apply(read_value_visit_Map(Top))
Step_T == Running("T") /\ Apply(read_value_visit_T(Top))

(***************************************************************************)
(* The inputs: documents in the wire format, each byte with the kind of    *)
(* field it belongs to, whole, truncated or with one byte replaced.        *)
(***************************************************************************)
B(bytes, kind) == [k \in 1..Len(bytes) |-> [b |-> bytes[k], kind |-> kind]]
LE16(n) == <<n % 256, n \div 256>>
LE32(n) == <<n % 256, (n \div 256) % 256, (n \div 65536) % 256, n \div 16777216>>

RECURSIVE Concat(_)
Concat(ss) == IF ss = <<>> THEN <<>> ELSE ss[1] \o Concat(Tail(ss))

Sized(body) == B(LE32(Len(body)), "size") \o body
WString(bytes) == B(LE16(Len(bytes)), "strlen") \o B(bytes, "str")
WScalar(bytes) == B(bytes, "value")
H(n) == <<n, 0, 0, 0>>
WField(name, tag, value) == B(name, "hash") \o B(<<tag>>, "tag") \o value
WFields(fs) == B(LE16(Len(fs)), "fieldcount") \o Concat(fs)
WEmbed(name, fs) == B(name, "hash") \o Sized(WFields(fs))
WNull == B(Zero4, "hash")
WOption(vt, vs) == B(<<vt>>, "tag") \o B(<<Len(vs)>>, "flag") \o Concat(vs)
WList(vt, vs) == B(<<vt>>, "tag") \o Sized(B(LE32(Len(vs)), "elemcount") \o Concat(vs))
WMap(kt, vt, kvs) ==
    B(<<kt, vt>>, "tag") \o Sized(B(LE32(Len(kvs) \div 2), "elemcount") \o Concat(kvs))
WEntry(key, fs) == Sized(B(key, "hash") \o WFields(fs))
WLinked(ss) == B(LE32(Len(ss)), "linkedcount") \o Concat(ss)
WEntries(names, es) ==
    B(LE32(Len(names)), "entrycount")
    \o Concat([k \in 1..Len(names) |-> B(names[k], "hash")])
    \o Concat(es)
WProp(version, linked, names, es) ==
    B(PROP, "magic") \o B(LE32(version), "version") \o linked \o WEntries(names, es)
WPatch(rest) == B(PTCH, "magic") \o B(<<1, 2, 3, 4, 5, 6, 7, 8>>, "unk") \o rest

Docs == <<
    WProp(0, <<>>, <<>>, <<>>),
    WProp(2, WLinked(<<WString(<<>>), WString(<<0, 0>>)>>), <<>>, <<>>),
    WPatch(WProp(0, <<>>, <<>>, <<>>)),
    WProp(1, <<>>, <<H(9)>>, <<WEntry(H(5), <<
        WField(H(1), Type.U8, WScalar(<<7>>)),
        WField(H(2), Type.OPTION, WOption(Type.U8, <<WScalar(<<5>>)>>)),
        WField(H(3), Type.LIST, WList(Type.STRING, <<WString(<<>>), WString(<<0, 0>>)>>))
        >>)>>),
    WProp(0, <<>>, <<H(8)>>, <<WEntry(H(6), <<
        WField(H(1), Type.EMBED, WEmbed(H(4), <<WField(H(1), Type.BOOL, WScalar(<<1>>))>>)),
        WField(H(2), Type.POINTER, WNull),
        WField(H(3), Type.POINTER, WEmbed(H(3), <<>>)),
        WField(H(4), Type.MAP, WMap(Type.U8, Type.U16, <<WScalar(<<1>>), WScalar(<<2, 0>>)>>)),
        WField(H(5), Type.LIST2, WList(Type.U8, <<WScalar(<<1>>), WScalar(<<2>>)>>)),
        WField(H(6), Type.OPTION, WOption(Type.U8, <<>>)),
        WField(H(7), Type.LIST, WList(Type.U8, <<>>))
        >>)>>),
    WProp(3, WLinked(<<>>), <<H(1), H(2)>>, <<
        WEntry(H(1), <<>>),
        WEntry(H(2), <<WField(H(1), Type.HASH, WScalar(<<1, 2, 3, 4>>)),
                    WField(H(2), Type.FILE, WScalar(<<1, 2, 3, 4, 5, 6, 7, 8>>))>>)
        >>),
    \* an entry whose Vec4 field holds the bytes of a second entry
    WProp(0, <<>>, <<H(9)>>, <<WEntry(H(6), <<
        WField(H(1), Type.VEC4,
               WScalar(<<0, 0, 0>> \o <<7, 0, 0, 0>> \o LE16(1) \o <<1, 0, 0, 0>>
                       \o <<Type.U16>> \o <<3, 0>>))
        >>)>>),
    \* a linked string and two entries that read as two other entries without it
    WProp(2, WLinked(<<WString(<<0, 0>>)>>), <<H(1), H(6)>>, <<
        WEntry(<<0, 0, 16, 0>>, <<>>),
        WEntry(H(1), <<WField(<<Type.STRING, 3, 0, 0>>, Type.U8, WScalar(<<9>>))>>)
        >>)
    >>

DocBytes(d) == [k \in 1..Len(Docs[d]) |-> Docs[d][k].b]
KindAt(d, k) == Docs[d][k].kind

\* the values a byte b is replaced by
Replacements(b) ==
    ({(b + d) % 256 : d \in 1..MaxDelta} \cup {0, Type.LIST, 255}) \ {b}

Mutations(d) ==
    {[kind |-> "none", at |-> 0, val |-> 0]}
    \cup {[kind |-> "trunc", at |-> k, val |-> 0] : k \in 0..(Len(Docs[d]) - 1)}
    \cup UNION {{[kind |-> "flip", at |-> k, val |-> v] : v \in Replacements(Docs[d][k].b)}
                : k \in 1..Len(Docs[d])}

Input(d, m) ==
    CASE m.kind = "trunc" -> SubSeq(DocBytes(d), 1, m.at)
      [] m.kind = "flip" -> [DocBytes(d) EXCEPT ![m.at] = m.val]
      [] OTHER -> DocBytes(d)

\* what the Bin holds before the call
StaleSections == ("type" :> StringV("JUNK")) @@ ("stale" :> U32V(Zero4))
PriorSections(m) ==
    IF m.kind = "flip" THEN {StaleSections} ELSE {NoSections, StaleSections}

Init ==
    /\ doc \in 1..Len(Docs)
    /\ mut \in Mutations(doc)
    /\ data = Input(doc, mut)
    /\ prior \in PriorSections(mut)
    /\ sections = prior
    /\ cur = beg
    /\ error = <<>>
    /\ stack = <<>>
    /\ ret = "none"
    /\ status = "init"
    /\ message = <<>>
    /\ lastRead = <<>>
    /\ sizeLog = <<>>
    /\ dispatch = <<>>

Next ==
    \/ read_binary
    \/ Step_process
    \/ Step_read_sections
    \/ Step_read_linked
    \/ Step_read_entries
    \/ Step_read_entry
    \/ Step_None
    \/ Step_Embed
    \/ Step_Pointer
    \/ Step_Option
    \/ Step_List
    \/ Step_List2
    \/ Step_Map
    \/ Step_T
    \/ bin_assert
    \/ read_binary_result

Spec == Init /\ [][Next]_vars

Done == status \in {"ok", "thrown"}

(***************************************************************************)
(* What the claims speak of.                                               *)
(***************************************************************************)
Whole == mut.kind = "none"
Truncated == mut.kind = "trunc"
\* one byte inside a field of one of the kinds was replaced
Flipped(kinds) == mut.kind = "flip" /\ KindAt(doc, mut.at) \in kinds

\* every document of Docs decodes when it is handed over whole
DocsDecode == (Done /\ Whole) => status = "ok"

WrittenSections == {"type", "version", "linked", "entries"}

BoundaryTexts == {"reader.position() == position + size",
                  "reader.position() == position + entryLength"}

\* the kind of failure (taxonomy of the decoder's errors) of the first failed check
FailureKind ==
    LET text == error[1][1]
    IN  CASE text \in BoundaryTexts -> "SizeMismatch"
          [] text = "reader.cur_ == reader.cap_" -> "TrailingData"
          [] text = "magic == std::array{ 'P', 'R', 'O', 'P' }" -> "MagicMismatch"
          [] text \in {"!is_container(value.valueType)", "is_primitive(value.keyType)"}
                -> "ContainerNestingViolation"
          [] text = "false" -> "UnknownTypeTag"
          [] lastRead # <<>> /\ lastRead[1].kind = "type"
             /\ lastRead[1].to > lastRead[1].from -> "UnknownTypeTag"
          [] OTHER -> "BufferUnderrun"

LengthKinds == {"size", "fieldcount", "elemcount", "linkedcount", "entrycount", "strlen"}

\* no List, List2, Option or Map in the Value v, at any depth, records a container
\* tag as its element, key or value type
RECURSIVE WellNested(_)
WellNested(v) ==
    CASE v.type \in {Type.LIST, Type.LIST2, Type.OPTION} ->
            /\ ~is_container(v.valueType)
            /\ \A k \in 1..Len(v.items) : WellNested(v.items[k])
      [] v.type = Type.MAP ->
            /\ ~is_container(v.keyType)
            /\ ~is_container(v.valueType)
            /\ \A k \in 1..Len(v.items) :
                    WellNested(v.items[k].key) /\ WellNested(v.items[k].item)
      [] v.type \in {Type.EMBED, Type.POINTER} ->
            \A k \in 1..Len(v.items) : WellNested(v.items[k].item)
      [] OTHER -> TRUE

\* the wire format of the header, read off the buffer: where "PROP" stands, the
\* version, the linked strings and where they end, the block of name hashes and
\* the entries behind it
WireHeader == IF Len(data) >= 4 /\ SubSeq(data, 1, 4) = PTCH THEN 12 ELSE 0
WireVersion == Bytes(WireHeader + 4, 4)

RECURSIVE WireStrings(_, _)
WireStrings(c, n) ==
    IF n = 0 THEN [items |-> <<>>, end |-> c]
    ELSE LET len == Num(Bytes(c, 2))
             rest == WireStrings(c + 2 + len, n - 1)
         IN  [items |-> <<StringV(Bytes(c + 2, len))>> \o rest.items, end |-> rest.end]

WireLinked ==
    IF Num(WireVersion) >= 2
        THEN WireStrings(WireHeader + 12, Num(Bytes(WireHeader + 8, 4)))
        ELSE [items |-> <<>>, end |-> WireHeader + 8]

WireEntryCount == Num(Bytes(WireLinked.end, 4))
WireNameHash(k) == Bytes(WireLinked.end + 4 + 4 * (k - 1), 4)

RECURSIVE WireEntryAt(_)
WireEntryAt(k) ==
    IF k = 1 THEN WireLinked.end + 4 + 4 * WireEntryCount
    ELSE WireEntryAt(k - 1) + 4 + Num(Bytes(WireEntryAt(k - 1), 4))

WireKeyHash(k) == Bytes(WireEntryAt(k) + 4, 4)

\* the diagnostic the claim describes: one line per record, outermost first, each
\* "<condition> @ <offset from the start of the buffer>"
RECURSIVE ClaimedText(_)
ClaimedText(e) ==
    IF e = <<>> THEN <<>>
    ELSE <<e[Len(e)][1], " @ ">> \o Digits(e[Len(e)][2] - beg) \o <<"\n">>
         \o ClaimedText(SubSeq(e, 1, Len(e) - 1))

(***************************************************************************)
(* The claims.                                                             *)
(***************************************************************************)

\* C1: when a decode call fails, the Document holds none of the sections (type,
\* version, linked, entries) written by the steps that ran before the failing check.
C1_NoPartialDocument ==
    status = "thrown" => DOMAIN sections \cap WrittenSections = {}

\* C2: a decode succeeds only if, for every size-prefixed field it decoded (entry
\* body, Embed, non-null Pointer, List, List2, Map), the cursor after the field's
\* contents equals the position captured after the length prefix plus the declared
\* length; a difference in either direction fails the decode.
C2_SizesExact ==
    status = "ok" =>
        \A k \in 1..Len(sizeLog) :
            sizeLog[k].after = sizeLog[k].position + sizeLog[k].size

\* C2 witness: a decode has succeeded after boundary checks of all six kinds of
\* size-prefixed field.
C2_Witness ==
    /\ status = "ok"
    /\ {sizeLog[k].fn : k \in 1..Len(sizeLog)}
            = {"read_entry", "Embed", "Pointer", "List", "List2", "Map"}

\* C3: every document that decodes fails to decode when truncated at any byte
\* boundary, and during that decode the cursor stays within begin <= cur <= end
\* and no read ends past the truncated end.
C3_Truncation ==
    /\ DocsDecode
    /\ Truncated =>
        /\ cur >= beg /\ cur <= cap
        /\ lastRead # <<>> => lastRead[1].from >= beg /\ lastRead[1].to <= cap
        /\ Done => status = "thrown"

\* C3 witness: a truncated document has failed inside a nested value, on a read
\* that found too few bytes left.
C3_Witness ==
    /\ Truncated /\ status = "thrown"
    /\ Len(error) >= 6
    /\ lastRead # <<>> /\ ~lastRead[1].ok /\ lastRead[1].to = lastRead[1].from

\* C4: every read of the byte cursor either succeeds and advances the cursor, or
\* fails and leaves the cursor and the destination as they were before the call,
\* also a string read with a short body and a type-tag read of an invalid tag.
C4_ReadsAtomic ==
    lastRead # <<>> =>
        IF lastRead[1].ok
            THEN lastRead[1].to >= lastRead[1].from
            ELSE lastRead[1].to = lastRead[1].from
                 /\ lastRead[1].after = lastRead[1].before

C6_Original ==
    status = "ok" => \A name \in DOMAIN sections : WellNested(sections[name])

\* C6 amended: a decode fails whenever an element type tag of a List, List2 or
\* Option or a value type tag of a Map read from the buffer is a container tag, and
\* whenever a Map's key type tag read from the buffer is not a scalar tag; so below
\* every entry of a decoded Document no List, List2, Option or Map records a
\* container tag.  (The entries section itself is a Map from Hash to Embed.)
C6_FieldsWellNested ==
    status = "ok" =>
        /\ sections["entries"].valueType = Type.EMBED
        /\ \A k \in 1..Len(sections["entries"].items) :
                WellNested(sections["entries"].items[k].item)

\* C6 witness: a decode has succeeded on a document with a List, a List2, an Option
\* and a Map.
C6_Witness ==
    /\ status = "ok"
    /\ {Type.LIST, Type.LIST2, Type.OPTION, Type.MAP}
            \subseteq {dispatch[k] : k \in 1..Len(dispatch)}

\* C7 as stated: changing a single byte inside a recorded size, count or length
\* field of a document that decodes makes the decode fail (with a size mismatch or
\* a buffer underrun); the changed buffer is never accepted.
C7_Original ==
    (Done /\ Flipped(LengthKinds)) => status = "thrown"

\* C7 amended: changing a single byte inside a byte-length field (of an entry, an
\* Embed, a Pointer, a List, a List2 or a Map) of a document that decodes makes the
\* decode fail with a size mismatch, and changing a single byte inside a field
\* count or an element count of a List, List2 or Map makes the decode fail.
C7_SizesAndCountsDetected ==
    /\ DocsDecode
    /\ (Done /\ Flipped({"size"})) => status = "thrown" /\ FailureKind = "SizeMismatch"
    /\ (Done /\ Flipped({"fieldcount", "elemcount"})) => status = "thrown"

\* C7 witness: a decode has failed with a size mismatch after a byte of a List's
\* byte length was changed.
C7_Witness ==
    /\ status = "thrown"
    /\ Flipped({"size"})
    /\ error[1][1] = "reader.position() == position + size"
    /\ sizeLog[Len(sizeLog)].fn = "List"

\* C8: the diagnostic has one line per record of the failure chain, outermost
\* first, each "<condition> @ <offset>" with the offset counted from the start of
\* the buffer, never negative.
C8_Diagnostic ==
    status = "thrown" => message = ClaimedText(error)

\* C9: every successful decode yields exactly the four sections, whatever the
\* Document held before: type by the first four bytes, version as read, linked the
\* strings in wire order (empty, still present, when version < 2), entries a Map
\* with one pair per entry in wire order, the i-th Embed named by the i-th name hash.
C9_FourSections ==
    status = "ok" =>
        /\ DOMAIN sections = WrittenSections
        /\ sections["type"]
                = StringV(IF SubSeq(data, 1, 4) = PTCH THEN "PTCH" ELSE "PROP")
        /\ sections["version"] = U32V(WireVersion)
        /\ sections["linked"] = [ListV(Type.STRING) EXCEPT !.items = WireLinked.items]
        /\ sections["entries"].type = Type.MAP
        /\ sections["entries"].keyType = Type.HASH
        /\ sections["entries"].valueType = Type.EMBED
        /\ Len(sections["entries"].items) = WireEntryCount
        /\ \A k \in 1..WireEntryCount :
                /\ sections["entries"].items[k].key = HashV(WireKeyHash(k))
                /\ sections["entries"].items[k].item.type = Type.EMBED
                /\ sections["entries"].items[k].item.name = WireNameHash(k)

\* C9 witness: a decode has succeeded into a Document that held other sections
\* before, with two entries and a linked string.
C9_Witness ==
    /\ status = "ok"
    /\ prior = StaleSections
    /\ Len(sections["entries"].items) = 2
    /\ Len(sections["linked"].items) = 1

\* C10: once a check has failed no later read is attempted (the cursor stays),
\* nothing is added to the Document, no enclosing step goes on, and the call ends
\* in failure with a non-empty chain; success is never reported after a failure.
C10_FirstFailureTerminal ==
    /\ [](error # <<>> => /\ status # "ok"
                          /\ status = "running" => ret = "false"
                          /\ status = "running" => ENABLED (bin_assert \/ read_binary_result))
    /\ [](status = "thrown" => error # <<>> /\ message # <<>>)
    /\ [][error # <<>> => /\ cur' = cur
                          /\ sections' = sections
                          /\ lastRead' = lastRead
                          /\ dispatch' = dispatch
                          /\ Len(error') >= Len(error)
                          /\ Len(stack') <= Len(stack)]_vars

\* C10 witness: a decode has failed four calls deep with part of the Document
\* written.
C10_Witness ==
    /\ status = "thrown"
    /\ Len(error) >= 4
    /\ DOMAIN sections = {"type", "version", "linked"}

====
